---- MODULE Spec2Model ----
(***************************************************************************)
(* Model of img2pdfConvertor/merge_pdfs.py: the natural-sort key, the      *)
(* merge_pdfs function (one step per loop iteration), directory discovery  *)
(* and the command-line entry point.                                       *)
(*                                                                         *)
(* A path is a sequence of one-character strings. The character U+00B2     *)
(* (SUPERSCRIPT TWO) is written "sup2": str.isdigit() accepts it, the      *)
(* regular expression \d does not match it, and int() rejects it.          *)
(***************************************************************************)
EXTENDS Integers, Sequences, FiniteSets, TLC

(***************************************************************************)
(* Bounds of the model.                                                    *)
(***************************************************************************)
\* longest list of paths handed to merge_pdfs
MaxLen == 2
\* most positional inputs on a command line
MaxCliInputs == 1

(***************************************************************************)
(* Characters and strings.                                                 *)
(***************************************************************************)
UpperLetters == <<"A","B","C","D","E","F","G","H","I","J","K","L","M",
                  "N","O","P","Q","R","S","T","U","V","W","X","Y","Z">>
LowerLetters == <<"a","b","c","d","e","f","g","h","i","j","k","l","m",
                  "n","o","p","q","r","s","t","u","v","w","x","y","z">>
AsciiDigits == <<"0","1","2","3","4","5","6","7","8","9">>

Range(f) == {f[i] : i \in DOMAIN f}

IndexIn(seq, c) == CHOOSE i \in DOMAIN seq : seq[i] = c

\* the code point of a character (ord)
Ord(c) ==
    IF c \in Range(AsciiDigits) THEN 47 + IndexIn(AsciiDigits, c)
    ELSE IF c \in Range(UpperLetters) THEN 64 + IndexIn(UpperLetters, c)
    ELSE IF c \in Range(LowerLetters) THEN 96 + IndexIn(LowerLetters, c)
    ELSE IF c = "." THEN 46
    ELSE IF c = "/" THEN 47
    ELSE 178   \* "sup2"

\* str.lower() on one character
LowerChar(c) ==
    IF c \in Range(UpperLetters) THEN LowerLetters[IndexIn(UpperLetters, c)] ELSE c

\* str.lower()
Lower(s) == [i \in DOMAIN s |-> LowerChar(s[i])]

\* whether the regular expression \d matches the character (Unicode category Nd)
RegexDigit(c) == c \in Range(AsciiDigits)

\* whether str.isdigit() accepts the character (Nd, and also digits such as U+00B2)
IsDigitChar(c) == c \in Range(AsciiDigits) \cup {"sup2"}

\* str.isdigit(): non-empty and every character is a digit character
IsDigit(s) == s # <<>> /\ \A i \in DOMAIN s : IsDigitChar(s[i])

\* str.endswith
EndsWith(s, suffix) ==
    /\ Len(s) >= Len(suffix)
    /\ SubSeq(s, Len(s) - Len(suffix) + 1, Len(s)) = suffix

DotPdf == <<".", "p", "d", "f">>

\* path.lower().endswith('.pdf')
HasPdfSuffix(path) == EndsWith(Lower(path), DotPdf)

RECURSIVE LastSlash(_, _)
LastSlash(s, i) == IF i = 0 THEN 0 ELSE IF s[i] = "/" THEN i ELSE LastSlash(s, i - 1)

\* os.path.basename
Basename(path) == SubSeq(path, LastSlash(path, Len(path)) + 1, Len(path))

\* os.path.join(directory, filename)
PathJoin(dir, name) == dir \o <<"/">> \o name

(***************************************************************************)
(* natural_sort_key and list.sort(key=natural_sort_key).                   *)
(***************************************************************************)
\* length of the longest prefix of s, from position i, whose characters all
\* satisfy (want = TRUE) or all fail (want = FALSE) the \d test
RECURSIVE RunEnd(_, _, _)
RunEnd(s, i, want) ==
    IF i > Len(s) \/ RegexDigit(s[i]) # want THEN i - 1 ELSE RunEnd(s, i + 1, want)

\* re.split(r'(\d+)', s) on s from position i: text run, digit run, text run, ...
RECURSIVE ReSplitFrom(_, _)
ReSplitFrom(s, i) ==
    LET t == RunEnd(s, i, FALSE)
        d == RunEnd(s, t + 1, TRUE)
    IN  IF t = Len(s) THEN << SubSeq(s, i, t) >>
        ELSE << SubSeq(s, i, t), SubSeq(s, t + 1, d) >> \o ReSplitFrom(s, d + 1)

ReSplit(s) == ReSplitFrom(s, 1)

\* int(text) for a text of decimal digits
RECURSIVE DecimalValue(_)
DecimalValue(text) ==
    IF text = <<>> THEN 0
    ELSE 10 * DecimalValue(SubSeq(text, 1, Len(text) - 1))
         + (Ord(text[Len(text)]) - 48)

\* int(text): ValueError unless every character is a decimal digit
IntOf(text) ==
    IF \A i \in DOMAIN text : RegexDigit(text[i])
    THEN [t |-> "int", n |-> DecimalValue(text), s |-> <<>>]
    ELSE [t |-> "ValueError", n |-> 0, s |-> text]

\* int(text) if text.isdigit() else text.lower()
KeyElement(text) ==
    IF IsDigit(text) THEN IntOf(text) ELSE [t |-> "str", n |-> 0, s |-> Lower(text)]

\* natural_sort_key(s): the list of key elements; raises if any int() raises
KeyElements(s) == LET runs == ReSplit(s) IN [i \in DOMAIN runs |-> KeyElement(runs[i])]

KeyRaises(s) == \E i \in DOMAIN KeyElements(s) : KeyElements(s)[i].t = "ValueError"

natural_sort_key(s) == KeyElements(s)

\* str < str: lexicographic by code point
RECURSIVE StrLess(_, _, _)
StrLess(a, b, i) ==
    IF i > Len(a) \/ i > Len(b) THEN Len(a) < Len(b)
    ELSE IF a[i] = b[i] THEN StrLess(a, b, i + 1)
    ELSE Ord(a[i]) < Ord(b[i])

\* list < list on two keys: "lt", "ge", or "TypeError" when the first differing
\* elements are an int and a str
RECURSIVE KeyCompareFrom(_, _, _)
KeyCompareFrom(a, b, i) ==
    IF i > Len(a) \/ i > Len(b) THEN (IF Len(a) < Len(b) THEN "lt" ELSE "ge")
    ELSE IF a[i] = b[i] THEN KeyCompareFrom(a, b, i + 1)
    ELSE IF a[i].t # b[i].t THEN "TypeError"
    ELSE IF a[i].t = "int" THEN (IF a[i].n < b[i].n THEN "lt" ELSE "ge")
    ELSE (IF StrLess(a[i].s, b[i].s, 1) THEN "lt" ELSE "ge")

KeyCompare(a, b) == KeyCompareFrom(a, b, 1)

\* insert x into the sorted list after every element that is not greater (stable)
RECURSIVE InsertSorted(_, _)
InsertSorted(sorted, x) ==
    IF sorted = <<>> THEN <<x>>
    ELSE LET last == sorted[Len(sorted)]
         IN  IF KeyCompare(natural_sort_key(x), natural_sort_key(last)) = "lt"
             THEN InsertSorted(SubSeq(sorted, 1, Len(sorted) - 1), x) \o <<last>>
             ELSE sorted \o <<x>>

RECURSIVE StableSort(_)
StableSort(list) ==
    IF list = <<>> THEN <<>>
    ELSE InsertSorted(StableSort(SubSeq(list, 1, Len(list) - 1)), list[Len(list)])

\* whether some comparison between two keys of the list is an int against a str
SortTypeError(list) ==
    \E i, j \in DOMAIN list :
        KeyCompare(natural_sort_key(list[i]), natural_sort_key(list[j])) = "TypeError"

\* input_paths.sort(key=natural_sort_key): the keys are computed first, so an
\* exception leaves the list as it was
ListSort(list) ==
    IF \E i \in DOMAIN list : KeyRaises(list[i])
    THEN [raised |-> "ValueError", list |-> list]
    ELSE IF SortTypeError(list) THEN [raised |-> "TypeError", list |-> list]
    ELSE [raised |-> "no", list |-> StableSort(list)]

(***************************************************************************)
(* The paths of the model and the file system.                             *)
(***************************************************************************)
File1  == <<"f","i","l","e","1",".","p","d","f">>
File2  == <<"f","i","l","e","2",".","p","d","f">>
File10 == <<"f","i","l","e","1","0",".","p","d","f">>
SupName == <<"sup2","3",".","p","d","f">>
DirD   == <<"d">>
NameA  == <<"a",".","p","d","f">>
NameB  == <<"B",".","P","D","F">>
NameN  == <<"n",".","t","x","t">>
DirA   == PathJoin(DirD, NameA)
DirB   == PathJoin(DirD, NameB)
DirN   == PathJoin(DirD, NameN)
\* a path given with -o/--output
Out    == <<"o","u","t",".","p","d","f">>
\* a directory without entries
DirE   == <<"e">>
NoSuchDir == <<"x">>

DirFiles == {DirA, DirB, DirN}
Listable == {File1, File2, File10, SupName} \cup DirFiles
Universe == Listable \cup {Out}
Directories == {DirD, DirE}

\* the pages a document of n pages at path p holds when the run starts
OwnPages(p, n) == [k \in 1..n |-> [f |-> p, k |-> k]]

Missing == [kind |-> "Missing", pages |-> <<>>]

\* what a path can hold when the program starts, and its number of pages:
\*   Missing           os.path.exists is false
\*   Unreadable        open(path, 'rb') raises OSError
\*   Corrupt           PdfReader raises PdfReadError
\*   Plain             an unencrypted document
\*   EncEmptyPw        encrypted, the empty password opens it
\*   EncNeedsPw        encrypted, decrypt('') returns NOT_DECRYPTED and the
\*                     page tree then raises FileNotDecryptedError
\*   EncDecryptRaises  encrypted, decrypt('') raises
FileKinds ==
    << [kind |-> "Plain", n |-> 2],
       [kind |-> "Missing", n |-> 0],
       [kind |-> "EncEmptyPw", n |-> 1],
       [kind |-> "Corrupt", n |-> 0],
       [kind |-> "Plain", n |-> 1],
       [kind |-> "EncNeedsPw", n |-> 1],
       [kind |-> "Unreadable", n |-> 0],
       [kind |-> "Plain", n |-> 0],
       [kind |-> "EncDecryptRaises", n |-> 1] >>

Names == << File1, File2, File10, SupName, DirA, DirB, DirN, Out >>

\* the file systems tried: in file system r the i-th name holds the (i+r)-th
\* kind, so that every name holds every kind in one of them
World(r) ==
    [p \in Universe |->
        LET k == FileKinds[((IndexIn(Names, p) + r) % Len(FileKinds)) + 1]
        IN  [kind |-> k.kind, pages |-> OwnPages(p, k.n)]]

BoundedSeqs(S, n) == UNION { [1..k -> S] : k \in 0..n }

Permutations_(S) == { q \in [1..Cardinality(S) -> S] : Range(q) = S }

\* os.path.exists
Exists(fsys, path) == fsys[path].kind # "Missing"

\* os.path.isdir
IsDir(path) == path \in Directories

\* the entries of a directory (the names os.listdir returns, in some order)
DirEntries(fsys, dir) ==
    { Basename(p) : p \in { q \in DOMAIN fsys : Exists(fsys, q)
                                               /\ Len(q) > Len(dir) + 1
                                               /\ SubSeq(q, 1, Len(dir) + 1) = dir \o <<"/">> } }

RECURSIVE PdfPathsOf(_, _)
PdfPathsOf(dir, listing) ==
    IF listing = <<>> THEN <<>>
    ELSE (IF HasPdfSuffix(Head(listing)) THEN << PathJoin(dir, Head(listing)) >> ELSE <<>>)
         \o PdfPathsOf(dir, Tail(listing))

\* find_pdfs_in_directory, for a directory that exists, given os.listdir's result
find_pdfs_in_directory(dir, listing) == PdfPathsOf(dir, listing)

VARIABLES
    fs,                   \* the file system: path -> [kind, pages]
    fs0,                  \* the file system when the current invocation started
    entry,                \* "cli": the script is run; "call": merge_pdfs is called
    args,                 \* the parsed command line (the call's arguments for "call")
    pc,                   \* the position of the program
    exit_code,            \* the process's exit status, -1 while it runs
    input_paths,          \* merge_pdfs: the list of candidates (sorted in place)
    idx,                  \* merge_pdfs: the position of the loop in input_paths
    merger,               \* merge_pdfs: the PdfWriter: state, pages, close() calls
    pdf_files_processed,  \* merge_pdfs: base names of the merged files
    total_pages_added,    \* merge_pdfs: the running page count
    outcomes,             \* the per-file lines printed, in order: [path, outcome, pages]
    result,               \* "none", "True", "False", or "raised"
    out_opened,           \* whether open(output_path, 'wb') was called
    write_env,            \* how writing the output behaves: ok, open_fails, write_fails
    run,                  \* 1 for the first invocation, 2 for the repeated one
    first                 \* what the first invocation produced

vars == << fs, fs0, entry, args, pc, exit_code, input_paths, idx, merger,
           pdf_files_processed, total_pages_added, outcomes, result,
           out_opened, write_env, run, first >>

\* merge_pdfs is called as merge_pdfs(input_files, args.output, args.sort)
output_path == args.output
sort_files == args.sort

NoWriter == [state |-> "none", pages |-> <<>>, closes |-> 0]
NoFirst == [done |-> FALSE, input_paths |-> <<>>, outcomes |-> <<>>,
            result |-> "none", output |-> Missing]

(***************************************************************************)
(* The initial states: a command line and the files it can name.           *)
(***************************************************************************)
\* args.directory: None when -d is absent, else the string given
NoDirectory == [none |-> TRUE, path |-> <<>>]
GivenDirectory(path) == [none |-> FALSE, path |-> path]
DirectoryArgs == { NoDirectory, GivenDirectory(<<>>), GivenDirectory(NoSuchDir),
                   GivenDirectory(DirD), GivenDirectory(DirE) }

\* the positional inputs tried together with a -d that overrides them
OverriddenInputs == { <<>>, <<File1>> }

\* the output paths tried: Out, an input, or a file of the scanned directory
OutputArgs(dir, inp) ==
    {Out} \cup Range(inp) \cup (IF dir = GivenDirectory(DirD) THEN DirFiles ELSE {})

Init ==
    \E dir \in DirectoryArgs, inp \in BoundedSeqs(Listable, MaxLen), srt \in BOOLEAN :
      /\ entry \in {"cli", "call"}
      /\ entry = "call" => dir = NoDirectory
      /\ entry = "cli" =>
            IF ~dir.none /\ dir.path # <<>> THEN inp \in OverriddenInputs
            ELSE Len(inp) <= MaxCliInputs
      /\ \E out \in OutputArgs(dir, inp) :
            args = [directory |-> dir, input |-> inp, output |-> out, sort |-> srt]
      /\ \E r \in 0..(Len(FileKinds) - 1) : fs = World(r)
      /\ fs0 = fs
      /\ pc = (IF entry = "cli" THEN "main" ELSE "merge_pdfs")
      /\ exit_code = -1
      /\ input_paths = (IF entry = "cli" THEN <<>> ELSE args.input)
      /\ idx = 0
      /\ merger = NoWriter
      /\ pdf_files_processed = <<>>
      /\ total_pages_added = 0
      /\ outcomes = <<>>
      /\ result = "none"
      /\ out_opened = FALSE
      /\ write_env = "unset"
      /\ run = 1
      /\ first = NoFirst

(***************************************************************************)
(* The command-line entry point, up to the call of merge_pdfs.             *)
(***************************************************************************)
mergeVars == << idx, merger, pdf_files_processed, total_pages_added, outcomes,
                result, out_opened, write_env >>

\* sys.exit(1) before merge_pdfs is called
ExitEarly ==
    /\ exit_code' = 1
    /\ pc' = "exit"
    /\ UNCHANGED << fs, fs0, entry, args, input_paths, mergeVars, run, first >>

\* success = merge_pdfs(input_files, args.output, args.sort)
CallMerge(input_files) ==
    /\ input_paths' = input_files
    /\ pc' = "merge_pdfs"
    /\ UNCHANGED << fs, fs0, entry, args, exit_code, mergeVars, run, first >>

DirectoryGiven == ~args.directory.none /\ args.directory.path # <<>>

\* -d names no directory: find_pdfs_in_directory exits
MainDirectoryNotFound ==
    /\ pc = "main"
    /\ DirectoryGiven
    /\ ~IsDir(args.directory.path)
    /\ ExitEarly

\* -d names a directory: scan it, exit if it holds no PDF, else merge what it holds
MainDirectory ==
    /\ pc = "main"
    /\ DirectoryGiven
    /\ IsDir(args.directory.path)
    /\ \E listing \in Permutations_(DirEntries(fs, args.directory.path)) :
         LET input_files == find_pdfs_in_directory(args.directory.path, listing)
         IN  IF input_files = <<>> THEN ExitEarly ELSE CallMerge(input_files)

\* positional inputs and no (or an empty) -d
MainInput ==
    /\ pc = "main"
    /\ ~DirectoryGiven
    /\ args.input # <<>>
    /\ CallMerge(args.input)

\* neither: print the help and exit
MainNoInput ==
    /\ pc = "main"
    /\ ~DirectoryGiven
    /\ args.input = <<>>
    /\ ExitEarly

(***************************************************************************)
(* merge_pdfs.                                                             *)
(***************************************************************************)
\* the writer is created, and the list sorted in place when sort_files is set;
\* an exception of the sort leaves merge_pdfs with the writer still open
MergeStart ==
    /\ pc = "merge_pdfs"
    /\ merger' = [state |-> "open", pages |-> <<>>, closes |-> 0]
    /\ pdf_files_processed' = <<>>
    /\ total_pages_added' = 0
    /\ LET sorted == ListSort(input_paths)
       IN  IF sort_files /\ sorted.raised # "no"
           THEN /\ pc' = "raised"
                /\ result' = "raised"
                /\ UNCHANGED << input_paths, idx >>
           ELSE /\ input_paths' = (IF sort_files THEN sorted.list ELSE input_paths)
                /\ idx' = 1
                /\ pc' = "loop"
                /\ UNCHANGED result
    /\ UNCHANGED << fs, fs0, entry, args, exit_code, outcomes, out_opened, write_env, run, first >>

\* what one iteration of the loop does with the file at path: the line it prints
\* and whether merger.append is reached
FileOutcome(path) ==
    LET file == fs[path]
    IN  IF ~Exists(fs, path) THEN "NotFound"
        ELSE IF ~HasPdfSuffix(path) THEN "NotPdf"
        \* try:
        ELSE IF file.kind = "Unreadable" THEN "UnexpectedError"     \* open raises
        ELSE IF file.kind \in {"Corrupt", "Truncated"} THEN "ReadError" \* PdfReader raises
        ELSE IF file.kind = "EncDecryptRaises" THEN "EncryptedUndecryptable"
        \* decrypt('') returned; len(reader.pages)
        ELSE IF file.kind = "EncNeedsPw" THEN "ReadError"  \* FileNotDecryptedError
        ELSE IF Len(file.pages) = 0 THEN "EmptyOrCorrupt"
        ELSE "Merged"

\* a slip: the new document's pages are put in front of the accumulated ones
AppendPages_InFront(acc, pages) == pages \o acc

\* merger.append(fileobj=infile): all pages of the document, after those held
AppendPages(acc, pages) == acc \o pages

\* one iteration of `for path in input_paths`
ProcessFile ==
    /\ pc = "loop"
    /\ idx <= Len(input_paths)
    /\ LET path == input_paths[idx]
           outcome == FileOutcome(path)
           \* num_pages, printed as "Added {num_pages} pages."
           num_pages == IF outcome = "Merged" THEN Len(fs[path].pages) ELSE 0
       IN  /\ outcomes' = Append(outcomes, [path |-> path, outcome |-> outcome,
                                             pages |-> num_pages])
           /\ IF outcome = "Merged"
              THEN /\ merger' = [merger EXCEPT !.pages = AppendPages(@, fs[path].pages)]
                   /\ pdf_files_processed' = Append(pdf_files_processed, Basename(path))
                   /\ total_pages_added' = total_pages_added + num_pages
              ELSE UNCHANGED << merger, pdf_files_processed, total_pages_added >>
    /\ idx' = idx + 1
    /\ UNCHANGED << fs, fs0, entry, args, pc, exit_code, input_paths, result, out_opened,
                    write_env, run, first >>

\* `if not pdf_files_processed`
NoneProcessed(processed) == processed = <<>>

\* after the loop, nothing was merged: close the writer and return False
NoValidFiles ==
    /\ pc = "loop"
    /\ idx > Len(input_paths)
    /\ NoneProcessed(pdf_files_processed)
    /\ merger' = [merger EXCEPT !.state = "closed", !.closes = @ + 1]
    /\ result' = "False"
    /\ pc' = "returned"
    /\ UNCHANGED << fs, fs0, entry, args, exit_code, input_paths, idx, pdf_files_processed,
                    total_pages_added, outcomes, out_opened, write_env, run, first >>

WriteEnvs == {"ok", "open_fails", "write_fails"}

\* a slip: the handler of a failed write removes the output file
WrittenFile_Removed(env, before, pages) ==
    IF env = "ok" THEN [kind |-> "Plain", pages |-> pages] ELSE Missing

\* the file open(output_path, 'wb') and merger.write leave behind: a failing
\* open leaves the path alone; a failing write leaves the file that open
\* created or truncated, with whatever part was written
WrittenFile(env, before, pages) ==
    IF env = "open_fails" THEN before
    ELSE IF env = "write_fails" THEN [kind |-> "Truncated", pages |-> <<>>]
    ELSE [kind |-> "Plain", pages |-> pages]

\* `return True` at the end of the try block, `return False` in the handler
WriteResult(env) == IF env = "ok" THEN "True" ELSE "False"

\* a slip: the loop variable, still bound to the last candidate, is opened
WriteTarget_LoopVariable == input_paths[Len(input_paths)]

\* the path opened for writing
WriteTarget == output_path

\* after the loop, something was merged: open the output, write, close the writer
WriteOutput ==
    /\ pc = "loop"
    /\ idx > Len(input_paths)
    /\ ~NoneProcessed(pdf_files_processed)
    /\ \E env \in WriteEnvs :
         /\ write_env \in {"unset", env}
         /\ write_env' = env
         /\ fs' = [fs EXCEPT ![WriteTarget] = WrittenFile(env, @, merger.pages)]
         /\ result' = WriteResult(env)
    /\ out_opened' = TRUE
    \* finally:
    /\ merger' = [merger EXCEPT !.state = "closed", !.closes = @ + 1]
    /\ pc' = "returned"
    /\ UNCHANGED << fs0, entry, args, exit_code, input_paths, idx, pdf_files_processed,
                    total_pages_added, outcomes, run, first >>

(***************************************************************************)
(* The end of the process, and a second invocation with the same command   *)
(* line.                                                                   *)
(***************************************************************************)
\* a slip: the failure of the merge is not turned into an exit status
ExitStatus_Zero(res) == 0

\* `if not success: sys.exit(1)`, else the script ends (status 0); an uncaught
\* exception ends the interpreter with status 1
ExitStatus(res) == IF res = "True" THEN 0 ELSE 1

\* the end of the script after merge_pdfs
MainExit ==
    /\ entry = "cli"
    /\ pc \in {"returned", "raised"}
    /\ exit_code' = ExitStatus(result)
    /\ pc' = "exit"
    /\ UNCHANGED << fs, fs0, entry, args, input_paths, mergeVars, run, first >>

\* a second run on the file system the first run left
Again ==
    /\ run = 1
    /\ run' = 2
    /\ first' = [done |-> TRUE, input_paths |-> input_paths, outcomes |-> outcomes,
                 result |-> result, output |-> fs[output_path]]
    /\ fs0' = fs
    /\ exit_code' = -1
    /\ idx' = 0
    /\ merger' = NoWriter
    /\ pdf_files_processed' = <<>>
    /\ total_pages_added' = 0
    /\ outcomes' = <<>>
    /\ result' = "none"
    /\ out_opened' = FALSE
    /\ UNCHANGED << fs, entry, args, write_env >>

\* the same command line is run again
RunAgain ==
    /\ entry = "cli"
    /\ pc = "exit"
    /\ pc' = "main"
    /\ input_paths' = <<>>
    /\ Again

\* merge_pdfs is called again with the same arguments: the same list object,
\* which the first call may have sorted in place
CallAgain ==
    /\ entry = "call"
    /\ pc \in {"returned", "raised"}
    /\ pc' = "merge_pdfs"
    /\ UNCHANGED input_paths
    /\ Again

Next ==
    \/ MainDirectoryNotFound
    \/ MainDirectory
    \/ MainInput
    \/ MainNoInput
    \/ MergeStart
    \/ ProcessFile
    \/ NoValidFiles
    \/ WriteOutput
    \/ MainExit
    \/ RunAgain
    \/ CallAgain

Spec == Init /\ [][Next]_vars

(***************************************************************************)
(* Vocabulary of the properties.                                           *)
(***************************************************************************)
\* merge_pdfs has been entered in the current run
InMerge == merger.state # "none"

\* merge_pdfs has been left, by a return or by an exception
MergeLeft == InMerge /\ pc \in {"returned", "raised", "exit"}

\* the run is over
Finished ==
    \/ entry = "cli" /\ pc = "exit"
    \/ entry = "call" /\ pc \in {"returned", "raised"}

\* a candidate whose pages belong in the output: it exists, is named *.pdf, and
\* is a readable document of at least one page (encrypted at most with the
\* empty password)
Mergeable(fsys, path) ==
    /\ Exists(fsys, path)
    /\ HasPdfSuffix(path)
    /\ fsys[path].kind \in {"Plain", "EncEmptyPw"}
    /\ fsys[path].pages # <<>>

AnyMergeable == \E k \in DOMAIN input_paths : Mergeable(fs0, input_paths[k])

\* the pages of the mergeable ones among the first n candidates, in order
RECURSIVE PagesOfMerged(_, _, _)
PagesOfMerged(fsys, list, n) ==
    IF n = 0 THEN <<>>
    ELSE PagesOfMerged(fsys, list, n - 1)
         \o (IF Mergeable(fsys, list[n]) THEN fsys[list[n]].pages ELSE <<>>)

MergedDocument == [kind |-> "Plain", pages |-> merger.pages]

(***************************************************************************)
(* C1                                                                      *)
(***************************************************************************)
\* C1: at every point of merge_pdfs the candidates handled so far are a prefix
\* of the (possibly sorted) list, the accumulated page sequence is the
\* concatenation, in that order, of the full page sequences of exactly the
\* handled candidates that are mergeable (a skipped candidate adds nothing and
\* moves nothing), and a successful write puts that sequence at output_path.
C1_PagesFollowProcessingOrder ==
    InMerge =>
        /\ Len(outcomes) <= Len(input_paths)
        /\ \A k \in DOMAIN outcomes : outcomes[k].path = input_paths[k]
        /\ merger.pages = PagesOfMerged(fs0, input_paths, Len(outcomes))
        /\ result = "True" => fs[output_path] = MergedDocument

\* two documents were merged after the sort changed their order, and written
C1_Witness ==
    /\ result = "True"
    /\ sort_files
    /\ input_paths # args.input
    /\ Len(pdf_files_processed) = 2
    /\ Len(merger.pages) >= 3

(***************************************************************************)
(* C2                                                                      *)
(***************************************************************************)
\* True was returned exactly for a run that merged and wrote
ReturnMatchesRun ==
    /\ result \in {"True", "False"}
    /\ result = "True" <=>
          /\ AnyMergeable
          /\ out_opened
          /\ write_env = "ok"
          /\ fs[output_path] = MergedDocument

\* C2: every run of merge_pdfs ends by returning True or False, and True
\* exactly when at least one candidate was merged and the accumulated document
\* was written to output_path without error.
C2_SuccessIffMergedAndWritten == MergeLeft => ReturnMatchesRun

\* what holds of the code: the same for every run in which merge_pdfs returns
\* (a run may instead end with the exception of the sort)
C2_SuccessIffOnReturn == pc = "returned" => ReturnMatchesRun

(***************************************************************************)
(* C3                                                                      *)
(***************************************************************************)
\* C3: on every way out of merge_pdfs the PdfWriter has been closed exactly
\* once, and it is never closed twice.
C3_WriterClosedExactlyOnce ==
    /\ merger.closes <= 1
    /\ MergeLeft => merger.state = "closed" /\ merger.closes = 1

\* what holds of the code: every return (not the exception of the sort)
\* closes the writer exactly once
C3_ClosedOnceOnReturn ==
    /\ merger.closes <= 1
    /\ (InMerge /\ result \in {"True", "False"}) =>
            merger.state = "closed" /\ merger.closes = 1

(***************************************************************************)
(* C4                                                                      *)
(***************************************************************************)
\* C4: when merge_pdfs is left every candidate has been visited exactly once,
\* in processing order, and has one outcome, which is Merged exactly for a
\* mergeable candidate whatever the candidates before it were.
C4_EveryCandidateVisited ==
    MergeLeft =>
        /\ Len(outcomes) = Len(input_paths)
        /\ \A k \in DOMAIN outcomes :
              /\ outcomes[k].path = input_paths[k]
              /\ outcomes[k].outcome = "Merged" <=> Mergeable(fs0, input_paths[k])

\* what holds of the code: the same, for every run in which merge_pdfs returns
C4_VisitedOnReturn ==
    (InMerge /\ result \in {"True", "False"}) =>
        /\ Len(outcomes) = Len(input_paths)
        /\ \A k \in DOMAIN outcomes :
              /\ outcomes[k].path = input_paths[k]
              /\ outcomes[k].outcome = "Merged" <=> Mergeable(fs0, input_paths[k])

(***************************************************************************)
(* C5                                                                      *)
(***************************************************************************)
\* C5 as stated: with sort_files set, the second of two runs with the same
\* arguments prints the same per-file outcomes and leaves the same document
\* at output_path as the first, wherever output_path lies.
C5_RerunIdempotent ==
    (run = 2 /\ Finished /\ sort_files) =>
        /\ outcomes = first.outcomes
        /\ fs[output_path] = first.output

\* output_path is a candidate of neither run
OutputApart ==
    /\ output_path \notin Range(first.input_paths)
    /\ output_path \notin Range(input_paths)

\* C5 as amended: the same, when output_path is not one of the candidates of
\* either run (the write behaving the same way in both).
C5_RerunIdempotentApart ==
    (run = 2 /\ Finished /\ sort_files /\ OutputApart) =>
        /\ outcomes = first.outcomes
        /\ fs[output_path] = first.output
        /\ result = first.result

\* a second run that sorted two candidates into another order, merged and wrote
\* them to a path that is not a candidate
C5_Witness ==
    /\ run = 2
    /\ Finished
    /\ sort_files
    /\ OutputApart
    /\ result = "True"
    /\ Len(pdf_files_processed) = 2
    /\ input_paths # args.input

(***************************************************************************)
(* C6                                                                      *)
(***************************************************************************)
\* C6: a run of merge_pdfs in which no candidate is mergeable (the list may be
\* empty) ends by returning False, without open(output_path, 'wb') having been
\* called and with the file at output_path as it was.
C6_NothingMergedReturnsFalse ==
    (MergeLeft /\ ~AnyMergeable) =>
        /\ result = "False"
        /\ ~out_opened
        /\ fs[output_path] = fs0[output_path]

\* what holds of the code: in such a run the output is never opened or
\* changed and True is never returned; when merge_pdfs returns, it returns
\* False (a run may instead end with the exception of the sort)
C6_NothingMergedNothingWritten ==
    (InMerge /\ ~AnyMergeable) =>
        /\ ~out_opened
        /\ fs[output_path] = fs0[output_path]
        /\ result # "True"
        /\ pc = "returned" => result = "False"

(***************************************************************************)
(* C7                                                                      *)
(***************************************************************************)
\* C7: a candidate encrypted with a non-empty password gets the outcome of the
\* encryption branch, EncryptedUndecryptable, and none of its pages are
\* appended.
C7_EncryptedSkippedAsEncrypted ==
    \A k \in DOMAIN outcomes :
        (InMerge /\ HasPdfSuffix(outcomes[k].path)
                 /\ fs0[outcomes[k].path].kind = "EncNeedsPw") =>
            /\ outcomes[k].outcome = "EncryptedUndecryptable"
            /\ \A i \in DOMAIN merger.pages : merger.pages[i].f # outcomes[k].path

\* what holds of the code: such a candidate is skipped, by the PdfReadError
\* branch, and none of its pages are appended
C7_EncryptedSkippedAsReadError ==
    \A k \in DOMAIN outcomes :
        (InMerge /\ HasPdfSuffix(outcomes[k].path)
                 /\ fs0[outcomes[k].path].kind = "EncNeedsPw") =>
            /\ outcomes[k].outcome = "ReadError"
            /\ merger.pages = PagesOfMerged(fs0, input_paths, Len(outcomes))

(***************************************************************************)
(* C8                                                                      *)
(***************************************************************************)
\* neither a directory nor positional inputs
NoInputMethod == ~DirectoryGiven /\ args.input = <<>>

\* -d names a directory without an entry named *.pdf
DirectoryWithoutPdfs ==
    /\ DirectoryGiven
    /\ IsDir(args.directory.path)
    /\ \A name \in DirEntries(fs0, args.directory.path) : ~HasPdfSuffix(name)

\* -d names something that is not a directory
DirectoryMissing == DirectoryGiven /\ ~IsDir(args.directory.path)

\* C8 as stated: the script exits with 1 exactly when no input method is given,
\* the directory holds no PDF, or merge_pdfs returns False, and with 0 otherwise.
C8_ExitOneInThreeCases ==
    (entry = "cli" /\ pc = "exit") =>
        exit_code = (IF NoInputMethod \/ DirectoryWithoutPdfs \/ result = "False"
                     THEN 1 ELSE 0)

\* C8 as amended: the script exits with 1 exactly when no input method is
\* given, the directory does not exist, the directory holds no PDF, merge_pdfs
\* returns False, or merge_pdfs raises; and with 0 otherwise.
C8_ExitOneInFiveCases ==
    (entry = "cli" /\ pc = "exit") =>
        exit_code = (IF \/ NoInputMethod
                        \/ DirectoryMissing
                        \/ DirectoryWithoutPdfs
                        \/ result = "False"
                        \/ result = "raised"
                     THEN 1 ELSE 0)

\* the script was given a directory that does not exist, and exited with 1
C8_Witness ==
    /\ entry = "cli"
    /\ pc = "exit"
    /\ DirectoryMissing
    /\ exit_code = 1

(***************************************************************************)
(* C9                                                                      *)
(***************************************************************************)
\* the list is in natural-sort order: no later key is less than an earlier one,
\* and no two keys fail to compare
NaturallySorted(list) ==
    \A i, j \in DOMAIN list :
        i < j => KeyCompare(natural_sort_key(list[j]), natural_sort_key(list[i])) = "ge"

\* C9: with sort_files set, for every list of paths the sort is defined (it
\* raises nothing) and the candidates are processed in natural-sort order.
C9_NaturalSortDefined ==
    (InMerge /\ sort_files) =>
        /\ result # "raised"
        /\ NaturallySorted(input_paths)

\* what holds of the code: unless a key raises ValueError, the list is sorted
\* in natural order and no comparison is an int against a str
C9_SortedUnlessKeyRaises ==
    (InMerge /\ sort_files) =>
        IF \E k \in DOMAIN input_paths : KeyRaises(input_paths[k])
        THEN result = "raised"
        ELSE result # "raised" /\ NaturallySorted(input_paths)

(***************************************************************************)
(* C10                                                                     *)
(***************************************************************************)
\* C10 as stated: when a candidate was merged and the write fails, False is
\* returned and the file at output_path is as it was before the call.
C10_FailedWriteLeavesOutput ==
    (pc = "returned" /\ out_opened /\ write_env # "ok") =>
        /\ result = "False"
        /\ fs[output_path] = fs0[output_path]

\* C10 as amended: when a candidate was merged and the write fails, False is
\* returned; the file at output_path is as it was before the call if it could
\* not be opened for writing, and otherwise it is the created or truncated
\* file holding what was written before the failure; only a successful write
\* leaves the merged document there.
C10_FailedWriteTruncatesOutput ==
    (pc = "returned" /\ out_opened) =>
        /\ write_env = "open_fails" =>
              result = "False" /\ fs[output_path] = fs0[output_path]
        /\ write_env = "write_fails" =>
              result = "False" /\ fs[output_path].kind = "Truncated"
        /\ write_env = "ok" =>
              result = "True" /\ fs[output_path] = MergedDocument

\* the output existed, could not be opened for writing, and kept its content
C10_Witness ==
    /\ pc = "returned"
    /\ out_opened
    /\ write_env = "open_fails"
    /\ result = "False"
    /\ Exists(fs0, output_path)
    /\ fs[output_path] = fs0[output_path]

====
